---- MODULE Spec2Model ----
(***************************************************************************)
(* Model of the jeeves command line front end (src/cli.rs, src/main.rs).   *)
(*                                                                         *)
(* A token of the argument list is a sequence of one-character strings, so *)
(* that the lexing of "--name", "--name=value", "-x" and "--" and the      *)
(* decimal conversion of a u32 field are computed, not assumed.  A u32 is  *)
(* a pair of 16-bit limbs [hi, lo] (value hi * 65536 + lo).                *)
(***************************************************************************)
EXTENDS Integers, Sequences, FiniteSets, TLC

VARIABLES args, pc, cli, stdout, handlers, exit_code

vars == <<args, pc, cli, stdout, handlers, exit_code>>

None == "None"

(***************************************************************************)
(* Tokens.                                                                 *)
(***************************************************************************)
Dash == "-"
T_jeeves == <<"j","e","e","v","e","s">>
T_init == <<"i","n","i","t">>
T_run == <<"r","u","n">>
T_sonar == <<"s","o","n","a","r">>
T_design_doc == <<"d","e","s","i","g","n","-","d","o","c">>
T_help == <<"h","e","l","p">>
L_help == <<"h","e","l","p">>
L_version == <<"v","e","r","s","i","o","n">>
L_issue == <<"i","s","s","u","e">>
L_repo == <<"r","e","p","o">>
L_max_iterations == <<"m","a","x","-","i","t","e","r","a","t","i","o","n","s">>
L_runner == <<"r","u","n","n","e","r">>

\* "--name"
Long(name) == <<Dash, Dash>> \o name
\* "--name=value"
LongEq(name, value) == <<Dash, Dash>> \o name \o <<"=">> \o value

(***************************************************************************)
(* Lexing of one token, as clap does it for the derived parser.            *)
(***************************************************************************)
IsEscape(t) == t = <<Dash, Dash>>

IsLong(t) == Len(t) > 2 /\ t[1] = Dash /\ t[2] = Dash

IsShort(t) == Len(t) > 1 /\ t[1] = Dash /\ t[2] # Dash

\* index of the first "=" of s, 0 when there is none
EqPos(s) ==
  IF \E i \in 1..Len(s) : s[i] = "="
  THEN CHOOSE i \in 1..Len(s) : s[i] = "=" /\ \A j \in 1..(i - 1) : s[j] # "="
  ELSE 0

LongBody(t) == SubSeq(t, 3, Len(t))

LongName(t) ==
  IF EqPos(LongBody(t)) = 0 THEN LongBody(t)
  ELSE SubSeq(LongBody(t), 1, EqPos(LongBody(t)) - 1)

LongHasValue(t) == EqPos(LongBody(t)) # 0

LongValue(t) == SubSeq(LongBody(t), EqPos(LongBody(t)) + 1, Len(LongBody(t)))

(***************************************************************************)
(* The u32 value parser: a decimal i64 (optional sign, at least one digit) *)
(* that must lie in 0..=4294967295.                                        *)
(***************************************************************************)
Limb == 256 * 256

Digits == <<"0","1","2","3","4","5","6","7","8","9">>

IsDigit(c) == \E d \in 1..10 : Digits[d] = c

DigitVal(c) == (CHOOSE d \in 1..10 : Digits[d] = c) - 1

U32(hi, lo) == [hi |-> hi, lo |-> lo]

\* PushDigit with the range check dropped: the value wraps at 32 bits
PushDigit_wrapping(acc, d) ==
  LET lo == acc.lo * 10 + d
      hi == acc.hi * 10 + (lo \div Limb)
  IN  [hi |-> hi % Limb, lo |-> lo % Limb, over |-> FALSE]

\* acc * 10 + d on limbs; over is sticky once the value leaves the u32 range
PushDigit(acc, d) ==
  LET lo == acc.lo * 10 + d
      hi == acc.hi * 10 + (lo \div Limb)
  IN  IF acc.over \/ hi >= Limb
      THEN [hi |-> 0, lo |-> 0, over |-> TRUE]
      ELSE [hi |-> hi, lo |-> lo % Limb, over |-> FALSE]

RECURSIVE Magnitude(_, _)
Magnitude(s, acc) ==
  IF s = <<>> THEN acc ELSE Magnitude(Tail(s), PushDigit(acc, DigitVal(Head(s))))

\* ParseU32 for a field declared u16: no value above 65535
ParseU32_u16(s) ==
  LET ds == IF s # <<>> /\ Head(s) = "+" THEN Tail(s) ELSE s
      m == Magnitude(ds, [hi |-> 0, lo |-> 0, over |-> FALSE])
  IN  IF ds = <<>> \/ \E i \in 1..Len(ds) : ~IsDigit(ds[i]) THEN <<>>
      ELSE IF m.over \/ m.hi # 0 THEN <<>>
      ELSE <<U32(0, m.lo)>>

\* the value of token s as a u32: <<v>>, or <<>> when the conversion fails
ParseU32(s) ==
  LET signed == s # <<>> /\ Head(s) \in {"+", Dash}
      neg == s # <<>> /\ Head(s) = Dash
      ds == IF signed THEN Tail(s) ELSE s
  IN  IF ds = <<>> \/ \E i \in 1..Len(ds) : ~IsDigit(ds[i])
      THEN <<>>
      ELSE LET m == Magnitude(ds, [hi |-> 0, lo |-> 0, over |-> FALSE])
           IN  IF m.over THEN <<>>
               ELSE IF neg /\ (m.hi # 0 \/ m.lo # 0) THEN <<>>
               ELSE <<U32(m.hi, m.lo)>>

\* the String value parser accepts every token unchanged
ParseString(s) == <<s>>

\* Display of a u32: its decimal digits, no sign, no leading zero
RECURSIVE FormatU32(_)
FormatU32(n) ==
  LET qh == n.hi \div 10
      r == (n.hi % 10) * Limb + n.lo
      q == U32(qh + (r \div 10) \div Limb, (r \div 10) % Limb)
      d == <<Digits[(r % 10) + 1]>>
  IN  IF q.hi = 0 /\ q.lo = 0 THEN d ELSE FormatU32(q) \o d

(***************************************************************************)
(* The derived command: its subcommands and the arguments of each.         *)
(***************************************************************************)
Root == "jeeves"

Subcommands == {"init", "run", "sonar", "design-doc"}

\* the name a positional token of the root command selects, None if none:
\* the four derived subcommands and the generated help subcommand
SubcommandNamed(t) ==
  IF t = T_init THEN "init"
  ELSE IF t = T_run THEN "run"
  ELSE IF t = T_sonar THEN "sonar"
  ELSE IF t = T_design_doc THEN "design-doc"
  ELSE IF t = T_help THEN "help"
  ELSE None

ValueArgIds == {"issue", "repo", "max_iterations", "runner"}

A_issue ==
  [id |-> "issue", long |-> L_issue, action |-> "Set", conv |-> "u32",
   required |-> TRUE, default |-> <<>>]

\* A_repo given a default, as the run fields have
A_repo_defaulted ==
  [id |-> "repo", long |-> L_repo, action |-> "Set", conv |-> "String",
   required |-> FALSE, default |-> << <<"o","w","n","e","r","/","r","e","p","o">> >>]

A_repo ==
  [id |-> "repo", long |-> L_repo, action |-> "Set", conv |-> "String",
   required |-> TRUE, default |-> <<>>]

A_max_iterations ==
  [id |-> "max_iterations", long |-> L_max_iterations, action |-> "Set",
   conv |-> "u32", required |-> FALSE, default |-> << <<"1","0">> >>]

A_runner ==
  [id |-> "runner", long |-> L_runner, action |-> "Set", conv |-> "String",
   required |-> FALSE,
   default |-> << <<"o","p","e","n","c","o","d","e">> >>]

\* generated for every command
A_help ==
  [id |-> "help", long |-> L_help, action |-> "Help", conv |-> "flag",
   required |-> FALSE, default |-> <<>>]

\* generated for the command that states a version: the root only
A_version ==
  [id |-> "version", long |-> L_version, action |-> "Version", conv |-> "flag",
   required |-> FALSE, default |-> <<>>]

ArgsOf(cmd) ==
  IF cmd = Root THEN {A_help, A_version}
  ELSE IF cmd = "init" THEN {A_issue, A_repo, A_help}
  ELSE IF cmd = "run" THEN {A_max_iterations, A_runner, A_help}
  ELSE {A_help}

\* the short flags of a command: -h, and -V where a version is stated
ShortAction(cmd, c) ==
  IF c = "h" THEN "Help"
  ELSE IF c = "V" /\ cmd = Root THEN "Version"
  ELSE None

Convert(arg, raw) == IF arg.conv = "u32" THEN ParseU32(raw) ELSE ParseString(raw)

(***************************************************************************)
(* Parse results.                                                          *)
(***************************************************************************)
Err(kind) == [ok |-> FALSE, kind |-> kind]

Ok(command) == [ok |-> TRUE, kind |-> "Ok", command |-> command]

EmptyMatches == [id \in ValueArgIds |-> <<>>]

\* the state of the parse loop of one command: the matched values, and the
\* option whose values are pending (with the values gathered so far)
StartState == [m |-> EmptyMatches, pend |-> None, vals |-> <<>>, trailing |-> FALSE]

ArgById(cmd, id) == CHOOSE a \in ArgsOf(cmd) : a.id = id

\* an option's occurrence with its raw values: at least one value, not
\* already given, and the value converts
React(cmd, p, arg, raw) ==
  IF raw = <<>> THEN Err("InvalidValue")
  ELSE IF p.m[arg.id] # <<>> THEN Err("ArgumentConflict")
  ELSE IF Convert(arg, raw[1]) = <<>> THEN Err("ValueValidation")
  ELSE [ok |-> TRUE, kind |-> "Ok",
        p |-> [p EXCEPT !.m[arg.id] = Convert(arg, raw[1])]]

\* the pending option, if any, reacts with the values gathered for it
ResolvePending(cmd, p) ==
  IF p.pend = None THEN [ok |-> TRUE, kind |-> "Ok", p |-> p]
  ELSE React(cmd, [p EXCEPT !.pend = None, !.vals = <<>>],
             ArgById(cmd, p.pend), p.vals)

AwaitingValue(p) == p.pend # None /\ p.vals = <<>>

Continue(p) == [ok |-> TRUE, kind |-> "Ok", p |-> p]

Display(action) == IF action = "Help" THEN "DisplayHelp" ELSE "DisplayVersion"

\* a "--name" or "--name=value" token
LongStep(cmd, p, t) ==
  LET known == {a \in ArgsOf(cmd) : a.long = LongName(t)}
      arg == CHOOSE a \in known : TRUE
      r == ResolvePending(cmd, p)
  IN  IF known = {} THEN Err("UnknownArgument")
      ELSE IF arg.action = "Set"
      THEN IF ~r.ok THEN r
           ELSE IF LongHasValue(t) THEN React(cmd, r.p, arg, <<LongValue(t)>>)
           ELSE Continue([r.p EXCEPT !.pend = arg.id, !.vals = <<>>])
      ELSE IF LongHasValue(t) THEN Err("TooManyValues")
      ELSE IF ~r.ok THEN r
      ELSE Err(Display(arg.action))

\* a "-x" token, read as short flags: only the first flag matters here,
\* since -h and -V end the parse and every other character is unknown
ShortStep(cmd, p, t) ==
  LET r == ResolvePending(cmd, p)
  IN  IF ShortAction(cmd, t[2]) = None THEN Err("UnknownArgument")
      ELSE IF ~r.ok THEN r
      ELSE Err(Display(ShortAction(cmd, t[2])))

\* "-5": a hyphen and then digits
IsNegativeNumber(t) == IsShort(t) /\ \A i \in 2..Len(t) : IsDigit(t[i])

\* AllowHyphenValues as if the string fields set allow_hyphen_values
AllowHyphenValues_strings(arg) == arg.conv = "String"

\* a field declared with a bare #[arg(long)] takes no value that starts
\* with a hyphen, and no negative number
AllowHyphenValues(arg) == FALSE

AllowNegativeNumbers(arg) == FALSE

\* whether token t, which looks like a flag, is a value of the pending option
MaybeHyphenValue(cmd, p, t) ==
  /\ AwaitingValue(p)
  /\ \/ AllowHyphenValues(ArgById(cmd, p.pend))
     \/ IsNegativeNumber(t) /\ AllowNegativeNumbers(ArgById(cmd, p.pend))

\* MatchArgError without the subcommand case
MatchArgError_unknown_argument(cmd, t, trailing) == Err("UnknownArgument")

\* the error for a token that is neither a flag, a value nor a subcommand
MatchArgError(cmd, t, trailing) ==
  IF cmd = Root /\ ~(trailing /\ SubcommandNamed(t) # None)
  THEN Err("InvalidSubcommand")
  ELSE Err("UnknownArgument")

\* jeeves help [COMMAND]...
RECURSIVE HelpSubcommand(_, _)
HelpSubcommand(cmd, toks) ==
  IF toks = <<>> THEN Err("DisplayHelp")
  ELSE IF cmd = Root /\ SubcommandNamed(Head(toks)) # None
  THEN HelpSubcommand(SubcommandNamed(Head(toks)), Tail(toks))
  ELSE Err("InvalidSubcommand")

\* AddDefaults resetting every option once one of them is absent
AddDefaults_all(cmd, m) ==
  [id \in ValueArgIds |->
     IF (\E a \in ArgsOf(cmd) : a.default # <<>> /\ m[a.id] = <<>>)
          /\ \E a \in ArgsOf(cmd) : a.id = id /\ a.default # <<>>
     THEN Convert(ArgById(cmd, id), ArgById(cmd, id).default[1])
     ELSE m[id]]

\* default_value: an absent option gets its default, converted like a given value
AddDefaults(cmd, m) ==
  [id \in ValueArgIds |->
     IF m[id] = <<>> /\ \E a \in ArgsOf(cmd) : a.id = id /\ a.default # <<>>
     THEN Convert(ArgById(cmd, id), ArgById(cmd, id).default[1])
     ELSE m[id]]

\* FromArgMatches with the two unit variants exchanged
FromArgMatches_swapped(cmd, m) ==
  IF cmd = "init"
  THEN [variant |-> "Init", issue |-> m["issue"][1], repo |-> m["repo"][1]]
  ELSE IF cmd = "run"
  THEN [variant |-> "Run", max_iterations |-> m["max_iterations"][1],
        runner |-> m["runner"][1]]
  ELSE IF cmd = "sonar" THEN [variant |-> "DesignDoc"]
  ELSE [variant |-> "Sonar"]

\* the Commands variant built from a subcommand's matches
FromArgMatches(cmd, m) ==
  IF cmd = "init"
  THEN [variant |-> "Init", issue |-> m["issue"][1], repo |-> m["repo"][1]]
  ELSE IF cmd = "run"
  THEN [variant |-> "Run", max_iterations |-> m["max_iterations"][1],
        runner |-> m["runner"][1]]
  ELSE IF cmd = "sonar" THEN [variant |-> "Sonar"]
  ELSE [variant |-> "DesignDoc"]

\* the end of a command's tokens: pending values, defaults, validation
Finish(cmd, p) ==
  LET r == ResolvePending(cmd, p)
      m == AddDefaults(cmd, r.p.m)
  IN  IF ~r.ok THEN r
      ELSE IF cmd = Root THEN Err("DisplayHelpOnMissingArgumentOrSubcommand")
      ELSE IF \E a \in ArgsOf(cmd) : a.required /\ m[a.id] = <<>>
      THEN Err("MissingRequiredArgument")
      ELSE Ok(FromArgMatches(cmd, m))

\* the parse loop of one command over its tokens
RECURSIVE GetMatchesWith(_, _, _)
GetMatchesWith(cmd, toks, p) ==
  IF toks = <<>> THEN Finish(cmd, p)
  ELSE
    LET t == Head(toks)
        rest == Tail(toks)
        step == IF IsLong(t) THEN LongStep(cmd, p, t) ELSE ShortStep(cmd, p, t)
    IN  IF ~p.trailing /\ cmd = Root /\ ~AwaitingValue(p) /\ SubcommandNamed(t) # None
        THEN IF SubcommandNamed(t) = "help" THEN HelpSubcommand(Root, rest)
             ELSE GetMatchesWith(SubcommandNamed(t), rest, StartState)
        ELSE IF ~p.trailing /\ IsEscape(t) /\ ~MaybeHyphenValue(cmd, p, t)
        THEN GetMatchesWith(cmd, rest, [p EXCEPT !.trailing = TRUE])
        ELSE IF ~p.trailing /\ (IsLong(t) \/ IsShort(t)) /\ ~MaybeHyphenValue(cmd, p, t)
        THEN IF step.ok THEN GetMatchesWith(cmd, rest, step.p) ELSE step
        ELSE IF ~p.trailing /\ AwaitingValue(p)
        THEN GetMatchesWith(cmd, rest, [p EXCEPT !.vals = <<t>>])
        ELSE MatchArgError(cmd, t, p.trailing)

\* Cli::try_parse_from: the first element is the program name
TryParseFrom(argv) == GetMatchesWith(Root, Tail(argv), StartState)

\* ExitCodeOf reporting success for every error
ExitCodeOf_zero(kind) == 0

\* Error::exit: help and version go to standard output with status 0,
\* every other error to standard error with status 2
ExitCodeOf(kind) == IF kind \in {"DisplayHelp", "DisplayVersion"} THEN 0 ELSE 2

(***************************************************************************)
(* Standard output: a sequence of pieces, each a literal piece of a format *)
(* string, one character of a field, or the newline println! appends.      *)
(***************************************************************************)
Newline == "\n"

Println(pieces) == pieces \o <<Newline>>

LineCount(out) == Cardinality({i \in DOMAIN out : out[i] = Newline})

\* what Error::exit writes to standard output: the help or version text
DisplayText(kind) ==
  IF kind = "DisplayHelp" THEN <<"<help>">>
  ELSE IF kind = "DisplayVersion" THEN <<"<version>">>
  ELSE <<>>

(***************************************************************************)
(* The argument lists examined: the program name, then a first token, then *)
(* up to MaxItems items, an item being one token or a flag and a token.    *)
(***************************************************************************)
MaxItems == 2

Tok_foo == <<"f","o","o">>
Tok_abc == <<"a","b","c">>
Tok_owner_repo == <<"o","w","n","e","r","/","r","e","p","o">>
Tok_claude == <<"c","l","a","u","d","e">>
Tok_two_lines == <<"a", Newline, "b">>
Tok_20 == <<"2","0">>
Tok_plus5 == <<"+","5">>
Tok_minus5 == <<Dash,"5">>
Tok_u32_max_plus_1 == <<"4","2","9","4","9","6","7","2","9","6">>
Tok_bogus == Long(<<"b","o","g","u","s">>)

Heads ==
  {T_init, T_run, T_sonar, T_design_doc, T_help, Tok_foo,
   Long(L_help), Long(L_version), <<Dash, Dash>>}

\* issue numbers: 0, 42, 65536 and the largest u32, 4294967295
SampleU32 == {U32(0, 0), U32(0, 42), U32(1, 0), U32(Limb - 1, Limb - 1)}

IssueValues ==
  {FormatU32(n) : n \in SampleU32} \cup {Tok_u32_max_plus_1, Tok_abc, Tok_minus5}

RepoValues == {Tok_owner_repo, Tok_abc, Tok_two_lines, <<Dash>>, Long(L_help), <<Dash, "x">>}

MaxIterationsValues == {Tok_20, Tok_plus5, Tok_abc, Tok_minus5}

RunnerValues == {Tok_claude, Tok_two_lines, Long(L_version)}

Singles ==
  {Long(L_help), Long(L_version), <<Dash, "h">>, <<Dash, Dash>>, Tok_foo, Tok_bogus,
   Long(L_issue), Long(L_repo), Long(L_max_iterations), Long(L_runner),
   LongEq(L_issue, Tok_minus5), LongEq(L_max_iterations, Tok_20),
   LongEq(L_runner, Long(L_help))}

Items ==
  {<<t>> : t \in Singles}
    \cup {<<Long(L_issue), v>> : v \in IssueValues}
    \cup {<<Long(L_repo), v>> : v \in RepoValues}
    \cup {<<Long(L_max_iterations), v>> : v \in MaxIterationsValues}
    \cup {<<Long(L_runner), v>> : v \in RunnerValues}

RECURSIVE Tails(_)
Tails(n) ==
  IF n = 0 THEN {<<>>}
  ELSE Tails(n - 1) \cup {it \o tl : it \in Items, tl \in Tails(n - 1)}

ArgLists ==
  {<<T_jeeves>>} \cup {<<T_jeeves, h>> \o tl : h \in Heads, tl \in Tails(MaxItems)}

(***************************************************************************)
(* The process: main parses the arguments, then dispatches on the variant. *)
(***************************************************************************)
Init ==
  /\ args \in ArgLists
  /\ pc = "unparsed"
  /\ cli = Err("Unparsed")
  /\ stdout = <<>>
  /\ handlers = <<>>
  /\ exit_code = <<>>

\* let cli = Cli::parse(): on an error the process exits there
Parse ==
  /\ pc = "unparsed"
  /\ cli' = TryParseFrom(args)
  /\ IF cli'.ok
     THEN /\ pc' = "parsed"
          /\ UNCHANGED <<stdout, exit_code>>
     ELSE /\ pc' = "exited"
          /\ stdout' = DisplayText(cli'.kind)
          /\ exit_code' = <<ExitCodeOf(cli'.kind)>>
  /\ UNCHANGED <<args, handlers>>

\* Handle leaving the process at the match, so that an arm can run again
Handle_again(name, pieces) ==
  /\ handlers' = Append(handlers, name)
  /\ stdout' = stdout \o Println(pieces)
  /\ exit_code' = <<0>>
  /\ pc' = "parsed"
  /\ UNCHANGED <<args, cli>>

\* one arm of the match: the handler prints its line and main returns
Handle(name, pieces) ==
  /\ handlers' = Append(handlers, name)
  /\ stdout' = stdout \o Println(pieces)
  /\ exit_code' = <<0>>
  /\ pc' = "dispatched"
  /\ UNCHANGED <<args, cli>>

DispatchInit ==
  /\ pc = "parsed"
  /\ cli.command.variant = "Init"
  /\ Handle("init",
            <<"Initializing issue #">> \o FormatU32(cli.command.issue)
              \o <<" for ">> \o cli.command.repo)

DispatchRun ==
  /\ pc = "parsed"
  /\ cli.command.variant = "Run"
  /\ Handle("run",
            <<"Running orchestrator with ">> \o cli.command.runner
              \o <<" for max ">> \o FormatU32(cli.command.max_iterations)
              \o <<" iterations">>)

DispatchSonar ==
  /\ pc = "parsed"
  /\ cli.command.variant = "Sonar"
  /\ Handle("sonar", <<"Fetching SonarCloud issues">>)

DispatchDesignDoc ==
  /\ pc = "parsed"
  /\ cli.command.variant = "DesignDoc"
  /\ Handle("design-doc", <<"Generating design document">>)

Next ==
  \/ Parse
  \/ DispatchInit
  \/ DispatchRun
  \/ DispatchSonar
  \/ DispatchDesignDoc

Spec == Init /\ [][Next]_vars

(***************************************************************************)
(* Vocabulary of the properties: what an argument list supplies, read off  *)
(* its tokens without running the parser.                                  *)
(***************************************************************************)
HasPrefix(t, pre) == Len(t) >= Len(pre) /\ SubSeq(t, 1, Len(pre)) = pre

\* a token of two or more characters that starts with a hyphen
HyphenLeading(t) == Len(t) > 1 /\ t[1] = Dash

\* the flag --name occurs after the subcommand token, alone or as --name=value
Supplied(name) ==
  \E i \in 3..Len(args) : args[i] = Long(name) \/ HasPrefix(args[i], LongEq(name, <<>>))

\* the values given with --name: the token after it, or the text after "="
Given(name) ==
  {args[i + 1] : i \in {j \in 3..(Len(args) - 1) : args[j] = Long(name)}}
    \cup {SubSeq(args[i], Len(LongEq(name, <<>>)) + 1, Len(args[i])) :
            i \in {j \in 3..Len(args) : HasPrefix(args[j], LongEq(name, <<>>))}}

\* the number a decimal token denotes: <<n>>, or <<>> for a token that
\* denotes no unsigned 32-bit integer
ExpectedU32(v) ==
  IF v = Tok_20 THEN <<U32(0, 20)>>
  ELSE IF v = Tok_plus5 THEN <<U32(0, 5)>>
  ELSE IF \E n \in SampleU32 : v = FormatU32(n)
  THEN <<CHOOSE n \in SampleU32 : v = FormatU32(n)>>
  ELSE <<>>

\* tokens that are no unsigned 32-bit integer: non-numeric, negative, too large
InvalidU32Tokens == {Tok_abc, Tok_minus5, Tok_u32_max_plus_1}

\* the u32 flag of each subcommand that has one, and its string flag
U32Flags == {<<T_init, L_issue, L_repo>>, <<T_run, L_max_iterations, L_runner>>}

Parsed == pc # "unparsed"

(***************************************************************************)
(* C1                                                                      *)
(***************************************************************************)
\* the argument list [jeeves, init, --issue, N, --repo, S]
InitCall ==
  /\ Len(args) = 6
  /\ args[2] = T_init
  /\ args[3] = Long(L_issue)
  /\ args[5] = Long(L_repo)

CarriesExactly(n, s) ==
  /\ cli.ok
  /\ cli.command.variant = "Init"
  /\ cli.command.issue = n
  /\ cli.command.repo = s

\* C1 as stated: for every u32 N and every string S, parsing
\* [jeeves, init, --issue, N, --repo, S] yields Init with issue = N, repo = S.
C1_EveryString ==
  \A n \in SampleU32 :
    (Parsed /\ InitCall /\ args[4] = FormatU32(n)) => CarriesExactly(n, args[6])

\* C1 amended: for every u32 N and every string S that does not start with a
\* hyphen (or is the single character "-"), parsing
\* [jeeves, init, --issue, N, --repo, S] yields Init with issue = N and
\* repo = S unchanged, whether or not S has the owner/repo form; an S of two
\* or more characters that starts with a hyphen is read as a flag and the
\* parse fails.
C1_InitCarriesIssueAndRepo ==
  \A n \in SampleU32 :
    (Parsed /\ InitCall /\ args[4] = FormatU32(n)) =>
      IF HyphenLeading(args[6]) THEN ~cli.ok ELSE CarriesExactly(n, args[6])

C1_Witness ==
  /\ pc = "dispatched"
  /\ InitCall
  /\ args[4] = FormatU32(U32(Limb - 1, Limb - 1))
  /\ args[6] = Tok_abc
  /\ CarriesExactly(U32(Limb - 1, Limb - 1), Tok_abc)

(***************************************************************************)
(* C2                                                                      *)
(***************************************************************************)
\* C2: a run invocation that parses successfully has max_iterations equal to
\* the value given with --max-iterations, 10 when the flag is omitted, and
\* runner equal to the value given with --runner, "opencode" when omitted,
\* each independently of the other; any runner name is accepted.
C2_RunDefaultsAndOverrides ==
  (Parsed /\ cli.ok /\ args[2] = T_run) =>
    /\ cli.command.variant = "Run"
    /\ IF Supplied(L_max_iterations)
       THEN /\ Given(L_max_iterations) # {}
            /\ \A v \in Given(L_max_iterations) :
                 ExpectedU32(v) = <<cli.command.max_iterations>>
       ELSE cli.command.max_iterations = U32(0, 10)
    /\ IF Supplied(L_runner)
       THEN /\ Given(L_runner) # {}
            /\ \A v \in Given(L_runner) : cli.command.runner = v
       ELSE cli.command.runner = <<"o","p","e","n","c","o","d","e">>

\* --runner overridden with a name outside claude/codex/opencode while
\* --max-iterations is defaulted
C2_Witness ==
  /\ pc = "dispatched"
  /\ args = <<T_jeeves, T_run, Long(L_runner), Tok_two_lines>>
  /\ cli.command.runner = Tok_two_lines
  /\ cli.command.max_iterations = U32(0, 10)

(***************************************************************************)
(* C3                                                                      *)
(***************************************************************************)
InitRest == SubSeq(args, 3, Len(args))

\* what init is given, when it omits a required flag, is valid as far as it
\* goes: nothing, or one required flag with a value it accepts
InitRestValid ==
  \/ InitRest = <<>>
  \/ /\ Len(InitRest) = 2
     /\ \/ InitRest[1] = Long(L_issue) /\ ExpectedU32(InitRest[2]) # <<>>
        \/ InitRest[1] = Long(L_repo) /\ ~HyphenLeading(InitRest[2])

U32FlagThenValue(f) ==
  /\ Len(args) \in {4, 6}
  /\ args[2] = f[1]
  /\ args[3] = Long(f[2])
  /\ Len(args) = 6 => (args[5] = Long(f[3]) /\ ~HyphenLeading(args[6]))

\* the same with the value v attached: --flag=v
U32FlagWithAttached(f, v) ==
  /\ Len(args) \in {3, 5}
  /\ args[2] = f[1]
  /\ args[3] = LongEq(f[2], v)
  /\ Len(args) = 5 => (args[4] = Long(f[3]) /\ ~HyphenLeading(args[5]))

\* C4 as stated: a value of --issue or --max-iterations that is no unsigned
\* 32-bit integer (non-numeric, negative, too large) gives a type-conversion
\* error.
C4_AlwaysTypeConversion ==
  \A f \in U32Flags :
    (Parsed /\ U32FlagThenValue(f) /\ args[4] \in InvalidU32Tokens) =>
      (~cli.ok /\ cli.kind = "ValueValidation")

\* C4 amended: a value of --issue or --max-iterations that is no unsigned
\* 32-bit integer never yields a command (no wrapped, truncated or defaulted
\* number).  In an invocation that is valid but for this value, the error is
\* a type-conversion error when the value is non-numeric, too large, or
\* attached with "=" (--issue=-5); a negative number given as a separate
\* token (--issue -5) is read as a flag and rejected as an unexpected
\* argument.
C4_InvalidU32Rejected ==
  \A f \in U32Flags :
    /\ (Parsed /\ Len(args) >= 2 /\ args[2] = f[1]
          /\ \E v \in Given(f[2]) : v \in InvalidU32Tokens) => ~cli.ok
    /\ (Parsed /\ U32FlagThenValue(f) /\ args[4] \in InvalidU32Tokens) =>
         cli.kind = IF HyphenLeading(args[4]) THEN "UnknownArgument"
                    ELSE "ValueValidation"
    /\ \A v \in InvalidU32Tokens :
         (Parsed /\ U32FlagWithAttached(f, v)) => cli.kind = "ValueValidation"

C4_Witness ==
  /\ pc = "exited"
  /\ Len(args) = 6
  /\ args[2] = T_init
  /\ args[3] = Long(L_issue)
  /\ args[4] = Tok_u32_max_plus_1
  /\ args[5] = Long(L_repo)
  /\ cli.kind = "ValueValidation"

(***************************************************************************)
(* C5                                                                      *)
(***************************************************************************)
\* C5: an argument list with a --help or --version token, before any
\* subcommand or after any of them, parses to an error value, never to a
\* command.
C5_HelpVersionNeverCommand ==
  (Parsed /\ \E i \in 2..Len(args) : args[i] \in {Long(L_help), Long(L_version)}) =>
    ~cli.ok

\* --help after a subcommand and after one of its options
C5_Witness ==
  /\ pc = "exited"
  /\ args = <<T_jeeves, T_run, Long(L_runner), Tok_claude, Long(L_help)>>
  /\ cli.kind = "DisplayHelp"

(***************************************************************************)
(* C6                                                                      *)
(***************************************************************************)
FourSubcommands == {T_init, T_run, T_sonar, T_design_doc}

\* the first token after the program name is positional and none of the four
UnknownFirstToken ==
  /\ Len(args) >= 2
  /\ ~HyphenLeading(args[2])
  /\ args[2] \notin FourSubcommands

\* C6 as stated: a first positional token that is none of init, run, sonar,
\* design-doc gives an unknown-command error.
C6_AlwaysUnknownCommand ==
  (Parsed /\ UnknownFirstToken) => (~cli.ok /\ cli.kind = "InvalidSubcommand")

\* C6 amended: a first positional token that is none of init, run, sonar,
\* design-doc never yields a command; the error is the unknown-command error
\* unless the token is help, the built-in help subcommand, which gives the
\* help early exit (or the unknown-command error when what follows it names
\* no subcommand).
C6_UnknownCommand ==
  (Parsed /\ UnknownFirstToken) =>
    /\ ~cli.ok
    /\ cli.kind \in IF args[2] = T_help THEN {"DisplayHelp", "InvalidSubcommand"}
                    ELSE {"InvalidSubcommand"}

C6_Witness ==
  /\ pc = "exited"
  /\ args = <<T_jeeves, Tok_foo, Long(L_issue), FormatU32(U32(0, 42))>>
  /\ cli.kind = "InvalidSubcommand"

(***************************************************************************)
(* C7                                                                      *)
(***************************************************************************)
VariantNamedBy(t) ==
  IF t = T_init THEN "Init"
  ELSE IF t = T_run THEN "Run"
  ELSE IF t = T_sonar THEN "Sonar"
  ELSE IF t = T_design_doc THEN "DesignDoc"
  ELSE None

FieldsOf(variant) ==
  IF variant = "Init" THEN {"variant", "issue", "repo"}
  ELSE IF variant = "Run" THEN {"variant", "max_iterations", "runner"}
  ELSE {"variant"}

\* C7: a successful parse yields the one variant its subcommand token names,
\* carrying that variant's fields only; sonar and design-doc with no further
\* token parse to the zero-field variants Sonar and DesignDoc.
C7_VariantOfSubcommand ==
  Parsed =>
    /\ cli.ok =>
         /\ Len(args) >= 2
         /\ cli.command.variant = VariantNamedBy(args[2])
         /\ DOMAIN cli.command = FieldsOf(cli.command.variant)
    /\ args = <<T_jeeves, T_sonar>> => (cli.ok /\ cli.command = [variant |-> "Sonar"])
    /\ args = <<T_jeeves, T_design_doc>> =>
         (cli.ok /\ cli.command = [variant |-> "DesignDoc"])

C7_Witness ==
  /\ pc = "dispatched"
  /\ args = <<T_jeeves, T_design_doc>>
  /\ cli.command = [variant |-> "DesignDoc"]

(***************************************************************************)
(* C8                                                                      *)
(***************************************************************************)
HandlerOf(variant) ==
  IF variant = "Init" THEN "init"
  ELSE IF variant = "Run" THEN "run"
  ELSE IF variant = "Sonar" THEN "sonar"
  ELSE "design-doc"

\* C8: the process goes unparsed -> parsed -> dispatched and stops: parsing
\* runs no handler; a failed parse (help and version included) ends the
\* process with no handler run; from parsed the one handler of the parsed
\* variant runs, once; nothing follows a dispatch or an exit.
C8_LinearOneShot ==
  [][/\ pc = "unparsed" =>
          /\ handlers = <<>>
          /\ handlers' = <<>>
          /\ \/ pc' = "parsed" /\ cli'.ok /\ exit_code' = <<>>
             \/ pc' = "exited" /\ ~cli'.ok /\ exit_code' # <<>>
     /\ pc = "parsed" =>
          /\ pc' = "dispatched"
          /\ cli' = cli
          /\ handlers' = <<HandlerOf(cli.command.variant)>>
     /\ pc \notin {"dispatched", "exited"}]_vars

C8_Witness ==
  /\ pc = "dispatched"
  /\ cli.ok
  /\ cli.command.variant = "Run"
  /\ handlers = <<"run">>

(***************************************************************************)
(* C9                                                                      *)
(***************************************************************************)
InvalidInvocation ==
  /\ pc = "exited"
  /\ cli.kind \in {"MissingRequiredArgument", "ValueValidation", "InvalidSubcommand"}

InvalidExitsNonZero ==
  InvalidInvocation => (exit_code # <<0>> /\ handlers = <<>> /\ stdout = <<>>)

NewlinesIn(text) == Cardinality({i \in DOMAIN text : text[i] = Newline})

\* the string field the handler of a command prints
PrintedField(command) ==
  IF command.variant = "Init" THEN command.repo
  ELSE IF command.variant = "Run" THEN command.runner
  ELSE <<>>

\* C9 as stated: a successful parse prints exactly one line to standard
\* output and exits with status zero; an invalid invocation exits non-zero
\* and no handler prints.
C9_ExactlyOneLine ==
  /\ pc = "dispatched" => (LineCount(stdout) = 1 /\ exit_code = <<0>>)
  /\ InvalidExitsNonZero

\* C9 amended: a successful parse runs one handler, which prints one message
\* ended by a newline, and the process exits with status zero; the message is
\* exactly one line when the repo or runner value holds no newline, and one
\* line more for each newline it holds.  An invalid invocation (missing
\* required field, bad type, unknown subcommand) exits non-zero and no
\* handler prints.
C9_ExitOutcome ==
  /\ pc = "dispatched" =>
       /\ exit_code = <<0>>
       /\ Len(handlers) = 1
       /\ stdout # <<>>
       /\ stdout[Len(stdout)] = Newline
       /\ LineCount(stdout) = 1 + NewlinesIn(PrintedField(cli.command))
  /\ InvalidExitsNonZero

\* a runner value that holds a newline: one message, two lines, status zero
C9_Witness ==
  /\ pc = "dispatched"
  /\ cli.command.variant = "Run"
  /\ cli.command.runner = Tok_two_lines
  /\ handlers = <<"run">>
  /\ LineCount(stdout) = 2
  /\ exit_code = <<0>>

====
